---- MODULE Spec2Model ----
(***************************************************************************)
(* Model of apollon/signal/correlogram.c: the windowed correlation         *)
(* coefficient corrcoef and the two correlogram builders.                  *)
(*                                                                         *)
(* Numbers.  Every value the code computes is a C double, and the model    *)
(* computes it as the machine does: in IEEE-754 binary64 with rounding to  *)
(* nearest, ties to even.  A double is a record [nan, s, m, e]:            *)
(*   - nan = TRUE is NaN (s = 0, m = <<>>, e = 0);                         *)
(*   - otherwise its value is (-1)^s * m * 2^e, where m is an odd natural  *)
(*     number below 2^53, or m = 0 with s = 0 and e = 0 (the value 0).     *)
(* So two doubles are equal as records exactly when they are the same      *)
(* number.  A natural number is the sequence of its base-2^14 digits,      *)
(* lowest digit first, highest digit not 0; <<>> is 0.                     *)
(* The samples of the model are integers far inside the range of a double, *)
(* so no value overflows, none is subnormal, and the only division by zero *)
(* is 0.0/0 = NaN; infinities and the sign of zero are not represented.    *)
(***************************************************************************)
EXTENDS Integers, Sequences, FiniteSets, TLC

\* ------------------------------------------------------------- bounds
\* the longest signal buffer, and the largest window length
MaxLen == 4

\* the largest dims[0] of correlogram_delay (the number of delays)
MaxN == 2

\* the largest dims[0] of correlogram (delays 1..MaxD-1)
MaxD == 3

\* the largest dims[1] (the number of window positions)
MaxT == 2

\* the largest entry of the delay list
MaxDelay == 2

\* the sample values: a signal takes its samples from one of these sets
Samples == {{0 - 3, 3}, {0 - 1, 2^25 + 1}}

\* ------------------------------------------------------------- natural numbers
Base == 2^14

Limb(a, k) == IF k <= Len(a) THEN a[k] ELSE 0

\* a digit sequence without the zeros at its top
RECURSIVE Strip(_)
Strip(d) ==
    IF d = <<>> THEN d
    ELSE IF d[Len(d)] # 0 THEN d
    ELSE Strip(SubSeq(d, 1, Len(d) - 1))

\* the digits of sum_k d[k] * Base^(k-1) from digit k on, with c carried into digit k
\* (d[k] may exceed Base - 1 or be negative; the carry out of the top is 0)
RECURSIVE Carry(_, _, _)
Carry(d, k, c) ==
    IF k > Len(d) THEN <<>>
    ELSE <<(d[k] + c) % Base>> \o Carry(d, k + 1, (d[k] + c) \div Base)

\* 0 <= n < 2^31
BFromNat(n) == Strip(<<n % Base, (n \div Base) % Base, n \div (Base * Base)>>)

BAdd(a, b) ==
    LET n == (IF Len(a) > Len(b) THEN Len(a) ELSE Len(b)) + 1
    IN  Strip(Carry(SubSeq([k \in 1..n |-> Limb(a, k) + Limb(b, k)], 1, n), 1, 0))

\* a - b, for a >= b
BSub(a, b) ==
    Strip(Carry(SubSeq([k \in 1..Len(a) |-> a[k] - Limb(b, k)], 1, Len(a)), 1, 0))

RECURSIVE CmpFrom(_, _, _)
CmpFrom(a, b, k) ==
    IF k = 0 THEN 0
    ELSE IF a[k] < b[k] THEN 0 - 1
    ELSE IF a[k] > b[k] THEN 1
    ELSE CmpFrom(a, b, k - 1)

\* -1, 0, 1 as a < b, a = b, a > b
BCmp(a, b) ==
    IF Len(a) < Len(b) THEN 0 - 1
    ELSE IF Len(a) > Len(b) THEN 1
    ELSE CmpFrom(a, b, Len(a))

\* a * q for one digit q
BMulSmall(a, q) ==
    Strip(Carry(SubSeq([k \in 1..(Len(a) + 1) |-> Limb(a, k) * q], 1, Len(a) + 1), 1, 0))

\* sum of a[i] * b[k+1-i] over i: column k of the schoolbook product
RECURSIVE ColSum(_, _, _, _)
ColSum(a, b, k, i) ==
    IF i > Len(a) \/ i > k THEN 0
    ELSE (IF k + 1 - i <= Len(b) THEN a[i] * b[k + 1 - i] ELSE 0)
         + ColSum(a, b, k, i + 1)

\* a * b, one of them of at most 8 digits
BMul(a, b) ==
    IF a = <<>> \/ b = <<>> THEN <<>>
    ELSE LET n == Len(a) + Len(b)
         IN  Strip(Carry(SubSeq([k \in 1..n |-> ColSum(a, b, k, 1)], 1, n), 1, 0))

\* the number of bits of one digit
BitLenInt(n) == Cardinality({k \in 0..13 : 2^k <= n})

BBitLen(a) == IF a = <<>> THEN 0 ELSE (Len(a) - 1) * 14 + BitLenInt(a[Len(a)])

\* a * 2^n
BShl(a, n) ==
    IF a = <<>> THEN <<>>
    ELSE LET w  == n \div 14
             lo == 2^(n % 14)
             hi == 2^(14 - (n % 14))
             m  == Len(a) + w + 1
         IN  Strip(SubSeq([k \in 1..m |->
                             IF k <= w THEN 0
                             ELSE (Limb(a, k - w) % hi) * lo
                                  + (IF k - w >= 2 THEN a[k - w - 1] \div hi ELSE 0)],
                          1, m))

\* a \div 2^n
BShr(a, n) ==
    LET w  == n \div 14
        lo == 2^(n % 14)
        hi == 2^(14 - (n % 14))
    IN  IF w >= Len(a) THEN <<>>
        ELSE Strip(SubSeq([k \in 1..(Len(a) - w) |->
                             a[k + w] \div lo + (Limb(a, k + w + 1) % lo) * hi],
                          1, Len(a) - w))

BIsOdd(a) == a # <<>> /\ a[1] % 2 = 1

\* the largest digit q <= q0 with d * q <= rem, and what is left of rem
RECURSIVE Fit(_, _, _)
Fit(d, q0, rem) ==
    LET p == BMulSmall(d, q0)
    IN  IF BCmp(p, rem) <= 0 THEN [q |-> q0, rem |-> BSub(rem, p)]
        ELSE Fit(d, q0 - 1, rem)

\* one step of the long division by d (its top digit >= Base / 2): the digit a_k is
\* brought down to the remainder hi.rem of the digits above it
DivStep(a_k, d, hi) ==
    LET cur == IF hi.rem = <<>> THEN (IF a_k = 0 THEN <<>> ELSE <<a_k>>)
               ELSE <<a_k>> \o hi.rem
        n   == Len(d)
        est == (Limb(cur, n + 1) * Base + Limb(cur, n)) \div d[n]
        f   == Fit(d, IF est > Base - 1 THEN Base - 1 ELSE est, cur)
    IN  [quo |-> <<f.q>> \o hi.quo, rem |-> f.rem]

\* quotient and remainder of the digits k.. of a by d
RECURSIVE DivDigits(_, _, _)
DivDigits(a, d, k) ==
    IF k > Len(a) - Len(d) + 1 THEN
        [quo |-> <<>>,
         rem |-> IF k > Len(a) THEN <<>> ELSE Strip(SubSeq(a, k, Len(a)))]
    ELSE LET hi == DivDigits(a, d, k + 1)
         IN  IF hi.rem = <<>> /\ a[k] = 0
             THEN [quo |-> <<0>> \o hi.quo, rem |-> <<>>]
             ELSE DivStep(a[k], d, hi)

QuotSticky(qr) == <<Strip(qr.quo), qr.rem # <<>>>>

DivShifted(a, d, sh) == QuotSticky(DivDigits(BShl(a, sh), BShl(d, sh), 1))

\* <<a \div d, whether a remainder is left>>, for d # 0
BDivMod(a, d) == DivShifted(a, d, 14 - BitLenInt(d[Len(d)]))

\* the integer square root of n, 2^14 <= n < 2^28
ISqrtInt(n) ==
    LET hi == Cardinality({x \in 1..127 : (x * 128) * (x * 128) <= n})
    IN  hi * 128
        + Cardinality({y \in 1..127 : (hi * 128 + y) * (hi * 128 + y) <= n})

\* Newton's iteration for the integer square root of a, from x above it: y is the
\* next iterate, (x + a \div x) \div 2
RECURSIVE Newton(_, _)
RECURSIVE NewtonStep(_, _, _)
NewtonStep(a, x, y) == IF BCmp(y, x) >= 0 THEN x ELSE Newton(a, y)

Newton(a, x) == NewtonStep(a, x, BShr(BAdd(x, BDivMod(a, x)[1]), 1))

\* a number of n \div 2 digits above the square root of a, from the top two of
\* the n digits of a (top)
FirstRoot(n, top) ==
    SubSeq([k \in 1..(n \div 2) |->
               IF k < n \div 2 THEN 0
               ELSE IF top < Base THEN Base - 1
               ELSE ISqrtInt(top) + 1],
           1, n \div 2)

RootSticky(root, a) == <<root, BCmp(BMul(root, root), a) # 0>>

\* <<the integer square root of a, whether a is no square>>; a has n or n - 1
\* digits, n even
BSqrt(a, n) == RootSticky(Newton(a, FirstRoot(n, Limb(a, n) * Base + a[n - 1])), a)

\* ------------------------------------------------------------- doubles
\* DBL_MANT_DIG, the bits of the significand of a double
MantBits == 53

NaN == [nan |-> TRUE, s |-> 0, m |-> <<>>, e |-> 0]

FZero == [nan |-> FALSE, s |-> 0, m |-> <<>>, e |-> 0]

\* the number of zero bits at the low end of a # 0
TrailingZeros(a) ==
    LET j == CHOOSE k \in 1..Len(a) : a[k] # 0 /\ \A i \in 1..(k - 1) : a[i] = 0
    IN  (j - 1) * 14 + Cardinality({k \in 1..13 : a[j] % 2^k = 0})

Shifted(s, m, e, tz) ==
    [nan |-> FALSE, s |-> s, m |-> IF tz = 0 THEN m ELSE BShr(m, tz), e |-> e + tz]

\* the double (-1)^s * m * 2^e, m # 0 of at most 53 bits (or 2^53)
Canon(s, m, e) == Shifted(s, m, e, TrailingZeros(m))

\* bit sh - 1 of m
HalfBit(m, sh) == (m[(sh - 1) \div 14 + 1] \div 2^((sh - 1) % 14)) % 2 = 1

\* whether a bit of m below bit sh - 1 is set
LowBits(m, sh) ==
    \/ m[(sh - 1) \div 14 + 1] % 2^((sh - 1) % 14) # 0
    \/ \E k \in 1..((sh - 1) \div 14) : m[k] # 0

\* q with the bits below it, half the first of them and rest saying whether any
\* other is set, rounded to nearest, ties to even
Nearest(s, q, e, half, rest) ==
    Canon(s, IF half /\ (rest \/ BIsOdd(q)) THEN BAdd(q, <<1>>) ELSE q, e)

\* m # 0 has sh + 53 bits
RoundBits(s, m, e, sticky, sh) ==
    IF sh <= 0 THEN Canon(s, m, e)
    ELSE Nearest(s, BShr(m, sh), e + sh, HalfBit(m, sh), sticky \/ LowBits(m, sh))

\* the double nearest to (-1)^s * (m + f) * 2^e, ties to even, where 0 <= f < 1 and
\* sticky says whether f > 0
FRound(s, m, e, sticky) ==
    IF m = <<>> THEN FZero ELSE RoundBits(s, m, e, sticky, BBitLen(m) - MantBits)

\* FRound of <<m, sticky>>
RoundPair(s, ms, e) == FRound(s, ms[1], e, ms[2])

\* the double of an integer, |n| < 2^31
FFromInt(n) ==
    FRound(IF n < 0 THEN 1 ELSE 0, BFromNat(IF n < 0 THEN 0 - n ELSE n), 0, FALSE)

FNeg(a) == IF a.nan \/ a.m = <<>> THEN a ELSE [a EXCEPT !.s = 1 - a.s]

\* (-1)^sa * ma * 2^e + (-1)^sb * mb * 2^e
AddAligned(sa, ma, sb, mb, e) ==
    FRound(IF sa = sb \/ BCmp(ma, mb) >= 0 THEN sa ELSE sb,
           IF sa = sb THEN BAdd(ma, mb)
           ELSE IF BCmp(ma, mb) >= 0 THEN BSub(ma, mb)
           ELSE BSub(mb, ma),
           e, FALSE)

\* a + b
FAdd(a, b) ==
    IF a.nan \/ b.nan THEN NaN
    ELSE IF a.m = <<>> THEN b
    ELSE IF b.m = <<>> THEN a
    ELSE AddAligned(a.s, BShl(a.m, a.e - (IF a.e < b.e THEN a.e ELSE b.e)),
                    b.s, BShl(b.m, b.e - (IF a.e < b.e THEN a.e ELSE b.e)),
                    IF a.e < b.e THEN a.e ELSE b.e)

\* a - b
FSub(a, b) == FAdd(a, FNeg(b))

\* a * b
FMul(a, b) ==
    IF a.nan \/ b.nan THEN NaN
    ELSE FRound((a.s + b.s) % 2, BMul(a.m, b.m), a.e + b.e, FALSE)

\* a / b from the quotient of a.m * 2^k by b.m
DivScaled(a, b, k) ==
    RoundPair((a.s + b.s) % 2, BDivMod(BShl(a.m, k), b.m), a.e - b.e - k)

\* a / b; 0.0/0 is NaN (no other division by zero happens)
FDiv(a, b) ==
    IF a.nan \/ b.nan \/ b.m = <<>> THEN NaN
    ELSE IF a.m = <<>> THEN FZero
    ELSE DivScaled(a, b, MantBits + 3 + BBitLen(b.m) - BBitLen(a.m))

\* the shift k >= k0 that makes e - k even
SqrtShift(e, k0) == IF (e - k0) % 2 = 0 THEN k0 ELSE k0 + 1

SqrtDigits(n, e) == RoundPair(0, BSqrt(n, IF Len(n) % 2 = 1 THEN Len(n) + 1 ELSE Len(n)), e)

\* sqrt(a) from the integer square root of a.m * 2^k
SqrtScaled(a, k) == SqrtDigits(BShl(a.m, k), (a.e - k) \div 2)

\* sqrt(a); the square root of a negative number is NaN
sqrt(a) ==
    IF a.nan \/ a.s = 1 THEN NaN
    ELSE IF a.m = <<>> THEN FZero
    ELSE SqrtScaled(a, SqrtShift(a.e, 2 * (MantBits + 2) - BBitLen(a.m)))

\* pow(a, 4), the double nearest to a^4
Pow4(a) ==
    IF a.nan THEN NaN
    ELSE LET sq == BMul(a.m, a.m)
         IN  FRound(0, BMul(sq, sq), 4 * a.e, FALSE)

\* a == b (false of NaN)
FEq(a, b) == ~a.nan /\ ~b.nan /\ a = b

\* a > 0 (false of NaN)
FGt0(a) == ~a.nan /\ a.m # <<>> /\ a.s = 0

NotNegative(d) == ~d.nan /\ (d.m = <<>> \/ d.s = 0)

\* a <= b (false of NaN): b - a rounds to a number of the sign of b - a
FLe(a, b) == NotNegative(FSub(b, a))

\* ------------------------------------------------------------- corrcoef
\* the value corrcoef returns when p_std == 0
Sentinel == FFromInt(0 - 2)

ZeroSums ==
    [s_x |-> FZero, s_y |-> FZero, s_xy |-> FZero, s_sq_x |-> FZero,
     s_sq_y |-> FZero, rd |-> {}]

\* variants of the definitions below, each with one slip of the pen
MaxIterShort(off_x, n) == IF n > 0 THEN off_x + n - 1 ELSE off_x

CovSwapped(s, n) == FSub(FDiv(FMul(s.s_x, s.s_y), n), s.s_xy)

\* size_t max_iter = off_x + n
MaxIter(off_x, n) == off_x + n

\* one pass of the loop body: the sums s with the samples xi = data[i] and
\* yi = data[j] added; rd collects the indices of data read
Pass(s, i, j, xi, yi) ==
    [s_x    |-> FAdd(s.s_x, xi),
     s_y    |-> FAdd(s.s_y, yi),
     s_xy   |-> FAdd(s.s_xy, FMul(xi, yi)),
     s_sq_x |-> FAdd(s.s_sq_x, FMul(xi, xi)),
     s_sq_y |-> FAdd(s.s_sq_y, FMul(yi, yi)),
     rd     |-> s.rd \cup {i, j}]

\* the sums after the passes i = off_x .. last of the loop, j = off_y + (i - off_x);
\* the samples are integer-valued doubles
RECURSIVE SumLoop(_, _, _, _)
SumLoop(data, off_x, off_y, last) ==
    IF last < off_x THEN ZeroSums
    ELSE Pass(SumLoop(data, off_x, off_y, last - 1),
              last, off_y + (last - off_x),
              FFromInt(data[last]), FFromInt(data[off_y + (last - off_x)]))

\* cov = s_xy - s_x * s_y / n
Cov(s, n) == FSub(s.s_xy, FDiv(FMul(s.s_x, s.s_y), n))

\* ms_x = s_x * s_x / n, and ms_y likewise
Ms(sum, n) == FDiv(FMul(sum, sum), n)

\* p_std = sqrt(s_sq_x - ms_x) * sqrt(s_sq_y - ms_y)
PStd(s, n) ==
    FMul(sqrt(FSub(s.s_sq_x, Ms(s.s_x, n))), sqrt(FSub(s.s_sq_y, Ms(s.s_y, n))))

\* if (p_std == 0) return -2; return cov / p_std
Ratio(cov, p_std) == IF FEq(p_std, FZero) THEN Sentinel ELSE FDiv(cov, p_std)

\* the value corrcoef returns, from the sums; n is the double of the size_t n
Coef(s, n) == Ratio(Cov(s, n), PStd(s, n))

\* what corrcoef returns and has read, from the sums
Result(s, n) == [r |-> Coef(s, FFromInt(n)), rd |-> s.rd]

\* [r |-> the value returned, rd |-> the indices of data read]
corrcoef(data, off_x, off_y, n) ==
    Result(SumLoop(data, off_x, off_y, MaxIter(off_x, n) - 1), n)

\* the arrays of the program are functions on 0..len-1
Arrays(len, S) == [0..(len - 1) -> S]

ALen(a) == Cardinality(DOMAIN a)

\* the signal buffers of len samples
Signals(len) == UNION {Arrays(len, S) : S \in Samples}

\* no offset of a run is above MaxOff
MaxOff == MaxLen + MaxT + MaxD + MaxDelay

\* the argument lists <<data, off_x, off_y, n>> with both windows inside the buffer
\* (with n = 0 no sample is read, whatever the offsets)
Arguments ==
    {c \in (UNION {Signals(len) : len \in 0..MaxLen})
              \X (0..MaxOff) \X (0..MaxOff) \X (0..MaxLen) :
        c[4] = 0 \/ (c[2] + c[4] <= ALen(c[1]) /\ c[3] + c[4] <= ALen(c[1]))}

\* corrcoef keeps no state and reads only its arguments: Returned holds what it
\* returns for every argument list, each computed once
Returned == [c \in Arguments |-> corrcoef(c[1], c[2], c[3], c[4])]

\* ------------------------------------------------------------- the builders
VARIABLES
    entry,      \* the function called: "corrcoef", "correlogram_delay", "correlogram"
    sig,        \* the signal buffer (data of corrcoef), indexed from 0
    delays,     \* the delay list of correlogram_delay, indexed from 0
    wlen,       \* the window length
    dims,       \* dims[0], dims[1]
    cgram,      \* the output buffer, indexed from 0
    pc,         \* "run" while the call is executing, "done" once it has returned
    i, t,       \* the loop variables of correlogram_delay
    delay, off, \* the loop variables of correlogram
    r,          \* the coefficient last returned by corrcoef
    ret,        \* the int a builder returned; NoRet before it returns
    calls,      \* history: the calls of corrcoef made so far, in order
    written,    \* history: the indices of cgram written so far, in order
    pre         \* history: sig, delays and dims as the caller passed them

vars == <<entry, sig, delays, wlen, dims, cgram, pc, i, t, delay, off, r, ret,
          calls, written, pre>>

NoRet == 0 - 1

Max(S) == CHOOSE m \in S : \A k \in S : k <= m

\* the content of the caller's output buffer before the call: cell k holds k + 2
InitCell(k) == FFromInt(k + 2)

\* the caller allocates the dims[0] x dims[1] cells, and one more that no call uses
InitCgram(D, T) == [k \in 0..(D * T) |-> InitCell(k)]

\* the shortest signal that holds every window correlogram_delay can read
DelayLen(ds, D, T, n) ==
    IF D >= 1 /\ T >= 1 /\ n >= 1
    THEN (T - 1) + Max({ds[k] : k \in DOMAIN ds}) + n
    ELSE 0

\* the shortest signal that holds every window correlogram can read
RangeLen(D, T, n) ==
    IF D >= 2 /\ T >= 1 /\ n >= 1 THEN T + D + n - 2 ELSE 0

InitCommon ==
    /\ pc = "run"
    /\ i = 0 /\ t = 0 /\ delay = 1 /\ off = 0
    /\ r = NaN
    /\ ret = NoRet
    /\ calls = <<>>
    /\ written = <<>>
    /\ pre = [sig |-> sig, delays |-> delays, dims |-> dims]

InitCorrcoef ==
    /\ entry = "corrcoef"
    /\ sig \in Signals(MaxLen)
    /\ delays = <<>>
    /\ wlen = 0
    /\ dims = [k \in 0..1 |-> 0]
    /\ cgram = InitCgram(0, 0)
    /\ InitCommon

InitDelay ==
    /\ entry = "correlogram_delay"
    /\ \E D \in 0..MaxN, T \in 0..MaxT, n \in 0..MaxLen :
          /\ dims = [k \in 0..1 |-> IF k = 0 THEN D ELSE T]
          /\ wlen = n
          /\ delays \in Arrays(D, 0..MaxDelay)
          /\ DelayLen(delays, D, T, n) <= MaxLen
          /\ sig \in Signals(DelayLen(delays, D, T, n))
          /\ cgram = InitCgram(D, T)
    /\ InitCommon

InitRange ==
    /\ entry = "correlogram"
    /\ \E D \in 0..MaxD, T \in 0..MaxT, n \in 0..MaxLen :
          /\ dims = [k \in 0..1 |-> IF k = 0 THEN D ELSE T]
          /\ wlen = n
          /\ RangeLen(D, T, n) <= MaxLen
          /\ sig \in Signals(RangeLen(D, T, n))
          /\ cgram = InitCgram(D, T)
    /\ delays = <<>>
    /\ InitCommon

Init == InitCorrcoef \/ InitDelay \/ InitRange

\* the record of one call of corrcoef, with what it returned and read
Call(off_x, off_y, n) ==
    [off_x |-> off_x, off_y |-> off_y, n |-> n] @@ Returned[<<sig, off_x, off_y, n>>]

TransformNoClamp(x) == IF ~x.nan /\ x.m # <<>> THEN Pow4(x) ELSE FZero

DelayIndexTransposed(ii, tt, dm) == tt * dm[0] + ii

RangeIndexNoShift(dl, oo, dm) == dl * dm[1] + oo

\* r == -2
IsSentinel(x) == FEq(x, Sentinel)

\* r > 0.0F ? pow(r, 4) : 0.0F
Transform(x) == IF FGt0(x) THEN Pow4(x) ELSE FZero

DelayIndex(ii, tt, dm) == ii * dm[1] + tt

DelayOffY(tt, ds, ii) == tt + ds[ii]

RangeIndex(dl, oo, dm) == (dl - 1) * dm[1] + oo

RangeOffY(oo, dl) == oo + dl

\* corrcoef returns: c is the record of the call
Returns(c) ==
    /\ r' = c.r
    /\ calls' = Append(calls, c)

\* the store cgram[k] = r > 0.0F ? pow(r, 4) : 0.0F
Store(k, x) ==
    /\ cgram' = [m \in DOMAIN cgram |-> IF m = k THEN Transform(x) ELSE cgram[m]]
    /\ written' = Append(written, k)

\* the call returned a coefficient, which is stored at cgram[k]
Stores(c, k) == ~IsSentinel(c.r) /\ Returns(c) /\ Store(k, c.r)

\* the call returned -2: nothing is stored
Aborts(c) == IsSentinel(c.r) /\ Returns(c) /\ UNCHANGED <<cgram, written>>

\* a direct call of corrcoef, its windows inside the buffer
CallCorrcoef ==
    /\ entry = "corrcoef" /\ pc = "run"
    /\ \E off_x \in 0..ALen(sig), off_y \in 0..ALen(sig), n \in 0..ALen(sig) :
          /\ off_x + n <= ALen(sig)
          /\ off_y + n <= ALen(sig)
          /\ Returns(Call(off_x, off_y, n))
    /\ pc' = "done"
    /\ UNCHANGED <<entry, sig, delays, wlen, dims, cgram, i, t, delay, off, ret,
                   written, pre>>

\* correlogram_delay: one pass of the inner loop body that stores a cell
DelayCell ==
    /\ entry = "correlogram_delay" /\ pc = "run"
    /\ i < dims[0] /\ t < dims[1]
    /\ Stores(Call(t, DelayOffY(t, delays, i), wlen), DelayIndex(i, t, dims))
    /\ t' = t + 1
    /\ UNCHANGED <<entry, sig, delays, wlen, dims, pc, i, delay, off, ret, pre>>

\* a variant of DelayFail that stores the cell before it tests r
DelayFailAfterStore ==
    /\ entry = "correlogram_delay" /\ pc = "run"
    /\ i < dims[0] /\ t < dims[1]
    /\ Returns(Call(t, DelayOffY(t, delays, i), wlen))
    /\ IsSentinel(r')
    /\ Store(DelayIndex(i, t, dims), r')
    /\ ret' = 0
    /\ pc' = "done"
    /\ UNCHANGED <<entry, sig, delays, wlen, dims, i, t, delay, off, pre>>

\* correlogram_delay: corrcoef returned -2, return 0
DelayFail ==
    /\ entry = "correlogram_delay" /\ pc = "run"
    /\ i < dims[0] /\ t < dims[1]
    /\ Aborts(Call(t, DelayOffY(t, delays, i), wlen))
    /\ ret' = 0
    /\ pc' = "done"
    /\ UNCHANGED <<entry, sig, delays, wlen, dims, i, t, delay, off, pre>>

\* correlogram_delay: the inner loop ends, i++
DelayNextRow ==
    /\ entry = "correlogram_delay" /\ pc = "run"
    /\ i < dims[0] /\ ~(t < dims[1])
    /\ i' = i + 1
    /\ t' = 0
    /\ UNCHANGED <<entry, sig, delays, wlen, dims, cgram, pc, delay, off, r, ret,
                   calls, written, pre>>

\* correlogram_delay: the outer loop ends, return 1
DelayReturn ==
    /\ entry = "correlogram_delay" /\ pc = "run"
    /\ ~(i < dims[0])
    /\ ret' = 1
    /\ pc' = "done"
    /\ UNCHANGED <<entry, sig, delays, wlen, dims, cgram, i, t, delay, off, r,
                   calls, written, pre>>

\* correlogram: one pass of the inner loop body that stores a cell
RangeCell ==
    /\ entry = "correlogram" /\ pc = "run"
    /\ delay < dims[0] /\ off < dims[1]
    /\ Stores(Call(off, RangeOffY(off, delay), wlen), RangeIndex(delay, off, dims))
    /\ off' = off + 1
    /\ UNCHANGED <<entry, sig, delays, wlen, dims, pc, i, t, delay, ret, pre>>

\* correlogram: corrcoef returned -2, return 0
RangeFail ==
    /\ entry = "correlogram" /\ pc = "run"
    /\ delay < dims[0] /\ off < dims[1]
    /\ Aborts(Call(off, RangeOffY(off, delay), wlen))
    /\ ret' = 0
    /\ pc' = "done"
    /\ UNCHANGED <<entry, sig, delays, wlen, dims, i, t, delay, off, pre>>

\* correlogram: the inner loop ends, delay++
RangeNextRow ==
    /\ entry = "correlogram" /\ pc = "run"
    /\ delay < dims[0] /\ ~(off < dims[1])
    /\ delay' = delay + 1
    /\ off' = 0
    /\ UNCHANGED <<entry, sig, delays, wlen, dims, cgram, pc, i, t, r, ret, calls,
                   written, pre>>

\* correlogram: the outer loop ends, return 1
RangeReturn ==
    /\ entry = "correlogram" /\ pc = "run"
    /\ ~(delay < dims[0])
    /\ ret' = 1
    /\ pc' = "done"
    /\ UNCHANGED <<entry, sig, delays, wlen, dims, cgram, i, t, delay, off, r,
                   calls, written, pre>>

Next ==
    \/ CallCorrcoef
    \/ DelayCell
    \/ DelayFail
    \/ DelayNextRow
    \/ DelayReturn
    \/ RangeCell
    \/ RangeFail
    \/ RangeNextRow
    \/ RangeReturn

Spec == Init /\ [][Next]_vars

\* ------------------------------------------------------------- reference notions
\* the window of n samples at offset o holds one value repeated
ZeroVariance(data, o, n) ==
    n >= 1 /\ \A k \in 0..(n - 1) : data[o + k] = data[o]

Degenerate(data, ox, oy, n) ==
    ZeroVariance(data, ox, n) \/ ZeroVariance(data, oy, n)

\* the two windows hold the same samples
SameWindows(data, ox, oy, n) ==
    \A k \in 0..(n - 1) : data[oy + k] = data[ox + k]

\* the window at oy is the negation of the window at ox
NegatedWindows(data, ox, oy, n) ==
    \A k \in 0..(n - 1) : data[oy + k] = 0 - data[ox + k]

Builder == entry \in {"correlogram_delay", "correlogram"}

\* the number of cells the called builder is to fill
NCells ==
    IF entry = "correlogram_delay" THEN dims[0] * dims[1]
    ELSE IF entry = "correlogram" /\ dims[0] >= 1 THEN (dims[0] - 1) * dims[1]
    ELSE 0

Positions == 0..(NCells - 1)

\* the window starts of the cell at row-major position k
CellOffX(k) == k % dims[1]

CellOffY(k) ==
    IF entry = "correlogram_delay"
    THEN (k % dims[1]) + delays[k \div dims[1]]
    ELSE (k % dims[1]) + (k \div dims[1]) + 1

CellDegenerate(k) == Degenerate(sig, CellOffX(k), CellOffY(k), wlen)

NoDegeneratePair == \A k \in Positions : ~CellDegenerate(k)

TimesWritten(k) == Cardinality({j \in 1..Len(written) : written[j] = k})

\* what corrcoef returns for the cell at row-major position k
CellCoef(k) == Returned[<<sig, CellOffX(k), CellOffY(k), wlen>>].r

FOne == FFromInt(1)

FMinusOne == FFromInt(0 - 1)

\* DBL_EPSILON = 2^-52, the distance from 1 to the next double
Epsilon == [nan |-> FALSE, s |-> 0, m |-> <<1>>, e |-> 0 - 52]

\* |x - c| <= tol
Within(x, c, tol) == FLe(FSub(c, tol), x) /\ FLe(x, FAdd(c, tol))

\* ------------------------------------------------------------- properties

ReturnsMinusTwo(k) == CellCoef(k) = Sentinel

FirstSentinel ==
    CHOOSE k \in Positions :
        ReturnsMinusTwo(k) /\ \A m \in Positions : m < k => ~ReturnsMinusTwo(m)

\* C3: in both builders, when corrcoef returns -2 for the cell at row-major position
\* k, the first such cell, the builder returns 0 with that call its last call of
\* corrcoef (call k+1 of the run, after which nothing more happens); every cell
\* below k holds its transformed value and the cell at k and every cell after it
\* holds the value it had before the call.
C3_AbortOnSentinel ==
    (Builder /\ pc = "done" /\ \E k \in Positions : ReturnsMinusTwo(k)) =>
        LET k == FirstSentinel
        IN  /\ ret = 0
            /\ Len(calls) = k + 1
            /\ calls[k + 1].r = Sentinel
            /\ calls[k + 1].off_x = CellOffX(k) /\ calls[k + 1].off_y = CellOffY(k)
            /\ ~ENABLED Next
            /\ \A m \in DOMAIN cgram :
                  /\ m < k => cgram[m] = Transform(CellCoef(m))
                  /\ m >= k => cgram[m] = InitCell(m)

\* an abort at a cell that has cells before it and cells after it
C3_Witness ==
    /\ Builder /\ pc = "done" /\ ret = 0
    /\ Len(calls) >= 2
    /\ Len(calls) < NCells
    /\ cgram[0] # InitCell(0)

\* C4: a builder returns 0 exactly when at least one generated (start, start+delay)
\* pair has a zero-variance window (a window of wlen >= 1 equal samples) and 1
\* otherwise; no call of corrcoef on two non-constant windows returns -2.
C4_ReturnCode ==
    /\ (Builder /\ pc = "done") =>
          /\ ret \in {0, 1}
          /\ ret = 0 <=> \E k \in Positions : CellDegenerate(k)
    /\ \A j \in 1..Len(calls) :
          ~Degenerate(sig, calls[j].off_x, calls[j].off_y, calls[j].n)
              => calls[j].r # Sentinel

\* C5: corrcoef with n > 0 and a window of identical values at off_x or at off_y
\* returns the sentinel -2; the buffer is not modified.
C5_DegenerateGivesSentinel ==
    /\ \A j \in 1..Len(calls) :
          (calls[j].n > 0
             /\ Degenerate(sig, calls[j].off_x, calls[j].off_y, calls[j].n))
              => calls[j].r = Sentinel
    /\ sig = pre.sig

\* C6: for two non-constant windows the value corrcoef returns is a number in
\* [-1, 1], and so it is not the sentinel -2.
C6_CoefficientRange ==
    \A j \in 1..Len(calls) :
        (calls[j].n >= 1
           /\ ~Degenerate(sig, calls[j].off_x, calls[j].off_y, calls[j].n)) =>
            /\ FLe(FMinusOne, calls[j].r)
            /\ FLe(calls[j].r, FOne)
            /\ calls[j].r # Sentinel

\* C7: every cell a builder has written equals r^4 when its coefficient r is > 0
\* and 0 otherwise, and lies in [0, 1], during and after the call.
C7_TransformRange ==
    \A j \in 1..Len(written) :
        /\ FGt0(calls[j].r) => cgram[written[j]] = Pow4(calls[j].r)
        /\ ~FGt0(calls[j].r) => cgram[written[j]] = FZero
        /\ FLe(FZero, cgram[written[j]])
        /\ FLe(cgram[written[j]], FOne)

AllReads == UNION {calls[j].rd : j \in 1..Len(calls)}

\* C10: each call corrcoef(data, off_x, off_y, n) reads exactly the indices
\* off_x..off_x+n-1 and off_y..off_y+n-1, all inside the buffer; during correlogram
\* with D >= 2, T >= 1, wlen >= 1 and a signal of length T+D+wlen-2 no index above
\* (T-1)+(D-1)+wlen-1 is read, and that index is read by a call that returns 1;
\* during correlogram_delay the same holds of (T-1)+max(delays)+wlen-1; the signal,
\* the delays and dims keep the values the caller passed.
C10_SignalAccess ==
    /\ \A j \in 1..Len(calls) :
          /\ calls[j].rd = (calls[j].off_x..(calls[j].off_x + calls[j].n - 1))
                              \cup (calls[j].off_y..(calls[j].off_y + calls[j].n - 1))
          /\ calls[j].rd \subseteq DOMAIN sig
    /\ (entry = "correlogram" /\ dims[0] >= 2 /\ dims[1] >= 1 /\ wlen >= 1) =>
          LET top == (dims[1] - 1) + (dims[0] - 1) + wlen - 1
          IN  /\ ALen(sig) = dims[1] + dims[0] + wlen - 2
              /\ \A k \in AllReads : k <= top
              /\ (pc = "done" /\ ret = 1) => top \in AllReads
    /\ (entry = "correlogram_delay" /\ dims[0] >= 1 /\ dims[1] >= 1 /\ wlen >= 1) =>
          LET top == (dims[1] - 1) + Max({delays[k] : k \in DOMAIN delays}) + wlen - 1
          IN  /\ \A k \in AllReads : k <= top
              /\ (pc = "done" /\ ret = 1) => top \in AllReads
    /\ sig = pre.sig /\ delays = pre.delays /\ dims = pre.dims

\* a complete correlogram over two delays that has read the last sample
C10_Witness ==
    /\ entry = "correlogram" /\ pc = "done" /\ ret = 1
    /\ dims[0] = 3 /\ wlen = 2
    /\ AllReads = DOMAIN sig
    /\ ALen(sig) = 4

====
